---- MODULE Spec2Model ----
(***************************************************************************)
(* Model of gym_cutting_stock.helper.MetricsCalculator.                    *)
(*                                                                         *)
(* A MetricsCalculator holds four snapshots (current stocks, current       *)
(* products, initial products, initial stocks) and offers one public       *)
(* operation, get_filled_ratio, built from three private derivations.      *)
(*                                                                         *)
(* A stock grid is modelled by its cells in row-major order: the code only *)
(* applies element-wise comparisons and count_nonzero to a grid, so the    *)
(* row/column arrangement never enters the computation.  All grids have    *)
(* GridCells cells, so the grids at one index always have equal shape.     *)
(* A product is a record [size |-> <<w, h>>, quantity |-> q].              *)
(* The float returned by Python's true division of two integers is         *)
(* modelled by the reduced fraction <<numerator, denominator>>: for the    *)
(* small integers of the model two quotients are the same float exactly    *)
(* when they are the same reduced fraction, and 0.0 is <<0, 1>>.           *)
(***************************************************************************)
EXTENDS Integers, Sequences, FiniteSets

\* ---------------------------------------------------------------- bounds
MaxStocks == 2
GridCells == 2
MaxInitialProducts == 2
MaxCurrentProducts == 2
MaxQty == 2
MaxCalls == 2

VARIABLES
    stocks,                     \* self.stocks
    current_products,           \* self.current_products
    initial_products,           \* self.initial_products
    initial_stocks,             \* self.initial_stocks
    calls,                      \* number of get_filled_ratio calls made
    outcome,                    \* how the last call ended
    filled_ratio,               \* value returned by the last call
    warned,                     \* last call logged the zero-area warning
    total_placed_product_area,  \* locals of the last call
    total_usable_stock_area,
    total_placed_area,
    used_stocks,
    total_stock_area

fields == <<stocks, current_products, initial_products, initial_stocks>>

locals == <<total_placed_product_area, total_usable_stock_area,
            total_placed_area, used_stocks, total_stock_area>>

vars == <<stocks, current_products, initial_products, initial_stocks,
          calls, outcome, filled_ratio, warned,
          total_placed_product_area, total_usable_stock_area,
          total_placed_area, used_stocks, total_stock_area>>

\* ---------------------------------------------------------- input domains
SeqsUpTo(S, n) == UNION {[1..k -> S] : k \in 0..n}

\* Cell markers: -1 free, -2 blocked, 0 the index of a placed product.
CellValues == {-2, -1, 0}

InitialCellValues == {-2, -1}

Grids == [1..GridCells -> CellValues]

InitialGrids == [1..GridCells -> InitialCellValues]

ProductSizes == {<<1, 1>>, <<1, 2>>, <<2, 1>>}

Products == [size : ProductSizes, quantity : 0..MaxQty]

AllFree == [c \in 1..GridCells |-> -1]

AllFilled == [c \in 1..GridCells |-> 0]

PartlyFilled == [c \in 1..GridCells |-> IF c = 1 THEN 0 ELSE -1]

\* <<initial stocks, current stocks>> of the product-rich inputs
StockScenarios ==
    { << <<>>, <<>> >>,
      << <<AllFree>>, <<AllFree>> >>,
      << <<AllFree>>, <<PartlyFilled>> >>,
      << <<AllFree>>, <<AllFilled>> >>,
      << <<AllFree, AllFree>>, <<AllFree, AllFilled>> >> }

\* <<initial products, current products>> of the stock-rich inputs
ProductScenarios ==
    { << <<>>, <<>> >>,
      << <<[size |-> <<1, 2>>, quantity |-> 2]>>, <<>> >>,
      << <<[size |-> <<1, 2>>, quantity |-> 2]>>,
         <<[size |-> <<1, 2>>, quantity |-> 1]>> >>,
      << <<[size |-> <<1, 2>>, quantity |-> 2]>>,
         <<[size |-> <<1, 2>>, quantity |-> 2]>> >> }

\* ------------------------------------------------------- numpy primitives
\* stock == value
equal_to(grid, value) == [c \in DOMAIN grid |-> grid[c] = value]

\* stock != value
not_equal_to(grid, value) == [c \in DOMAIN grid |-> grid[c] # value]

logical_and(a, b) == [c \in DOMAIN a |-> a[c] /\ b[c]]

RECURSIVE count_nonzero(_)
count_nonzero(mask) ==
    IF Len(mask) = 0 THEN 0
    ELSE (IF Head(mask) THEN 1 ELSE 0) + count_nonzero(Tail(mask))

\* ------------------------------------------------- float of int / int
RECURSIVE GCD(_, _)
GCD(a, b) == IF b = 0 THEN a ELSE GCD(b, a % b)

Abs(x) == IF x < 0 THEN -x ELSE x

Zero == <<0, 1>>

One == <<1, 1>>

\* p / q for q > 0
true_divide(p, q) ==
    LET g == GCD(Abs(p), q)
    IN  IF p < 0 THEN <<-(Abs(p) \div g), q \div g>>
                 ELSE <<p \div g, q \div g>>

\* ------------------------------------------------ _get_usable_stock_area
RECURSIVE usable_stock_area_loop(_, _)
usable_stock_area_loop(init_stocks, i) ==
    IF i > Len(init_stocks) THEN 0
    ELSE count_nonzero(equal_to(init_stocks[i], -1))
         + usable_stock_area_loop(init_stocks, i + 1)

get_usable_stock_area(init_stocks) == usable_stock_area_loop(init_stocks, 1)

\* ------------------------------------------------------ _get_placed_area
\* Faulty variant: the initial_stock == -1 mask is dropped.
newly_placed_cells_unmasked(initial_stock, current_stock) ==
    not_equal_to(current_stock, -1)

newly_placed_cells(initial_stock, current_stock) ==
    logical_and(equal_to(initial_stock, -1), not_equal_to(current_stock, -1))

\* acc = [raised, area, used, avail]: the exception raised so far ("" for
\* none) and the three accumulators of the loop.
RECURSIVE placed_area_loop(_, _, _, _)
placed_area_loop(cur_stocks, init_stocks, stock_index, acc) ==
    IF stock_index > Len(cur_stocks) THEN acc
    ELSE IF stock_index > Len(init_stocks)
    THEN [acc EXCEPT !.raised = "IndexError"]
    ELSE LET initial_stock == init_stocks[stock_index]
             current_stock == cur_stocks[stock_index]
             area_of_new_placements ==
                 count_nonzero(newly_placed_cells(initial_stock, current_stock))
         IN  placed_area_loop(cur_stocks, init_stocks, stock_index + 1,
                 [raised |-> acc.raised,
                  area   |-> acc.area + area_of_new_placements,
                  used   |-> IF area_of_new_placements > 0
                             THEN acc.used + 1 ELSE acc.used,
                  avail  |-> IF area_of_new_placements > 0
                             THEN acc.avail
                                  + count_nonzero(equal_to(initial_stock, -1))
                             ELSE acc.avail])

NoPlacements == [raised |-> "", area |-> 0, used |-> 0, avail |-> 0]

\* Faulty variant: the available area is summed over all stocks, used or not.
get_placed_area_all_stocks(cur_stocks, init_stocks) ==
    [placed_area_loop(cur_stocks, init_stocks, 1, NoPlacements)
        EXCEPT !.avail = get_usable_stock_area(init_stocks)]

\* Faulty variant: the available area counts the cells still free in the used stocks.
get_placed_area_remaining(cur_stocks, init_stocks) ==
    LET r == placed_area_loop(cur_stocks, init_stocks, 1, NoPlacements)
    IN  [r EXCEPT !.avail = r.avail - r.area]

\* Faulty variant: the loop ranges over len(self.initial_stocks).
get_placed_area_initial_range(cur_stocks, init_stocks) ==
    IF Len(init_stocks) > Len(cur_stocks)
    THEN [NoPlacements EXCEPT !.raised = "IndexError"]
    ELSE placed_area_loop(SubSeq(cur_stocks, 1, Len(init_stocks)),
                          init_stocks, 1, NoPlacements)

get_placed_area(cur_stocks, init_stocks) ==
    placed_area_loop(cur_stocks, init_stocks, 1, NoPlacements)

\* ----------------------------------------- _calculate_total_product_area
\* Faulty variant: the lookup keeps the last match, not the first.
RECURSIVE last_match(_, _, _)
last_match(cur_products, size, j) ==
    IF j = 0 THEN 0
    ELSE IF cur_products[j].size = size THEN j
    ELSE last_match(cur_products, size, j - 1)

find_current_product_last(cur_products, size) ==
    last_match(cur_products, size, Len(cur_products))

\* next((p for p in current_products if array_equal(p.size, size)), None):
\* the position of the first match, 0 for None.
RECURSIVE first_match(_, _, _)
first_match(cur_products, size, j) ==
    IF j > Len(cur_products) THEN 0
    ELSE IF cur_products[j].size = size THEN j
    ELSE first_match(cur_products, size, j + 1)

find_current_product(cur_products, size) == first_match(cur_products, size, 1)

\* acc = [initial, unplaced]: total_initial_product_area and
\* total_unplaced_product_area.
RECURSIVE product_area_loop(_, _, _, _)
product_area_loop(init_products, cur_products, i, acc) ==
    IF i > Len(init_products) THEN acc
    ELSE LET initial_product == init_products[i]
             size == initial_product.size
             initial_quantity == initial_product.quantity
             current_product == find_current_product(cur_products, size)
             remaining_quantity ==
                 IF current_product = 0 THEN 0
                 ELSE cur_products[current_product].quantity
         IN  product_area_loop(init_products, cur_products, i + 1,
                 [initial  |-> acc.initial
                               + size[1] * size[2] * initial_quantity,
                  unplaced |-> acc.unplaced
                               + size[1] * size[2] * remaining_quantity])

\* Faulty variant: a lookup miss counts the product as wholly unplaced.
RECURSIVE product_area_loop_miss_unplaced(_, _, _, _)
product_area_loop_miss_unplaced(init_products, cur_products, i, acc) ==
    IF i > Len(init_products) THEN acc
    ELSE LET initial_product == init_products[i]
             size == initial_product.size
             initial_quantity == initial_product.quantity
             current_product == find_current_product(cur_products, size)
             remaining_quantity ==
                 IF current_product = 0 THEN initial_quantity
                 ELSE cur_products[current_product].quantity
         IN  product_area_loop_miss_unplaced(init_products, cur_products, i + 1,
                 [initial  |-> acc.initial
                               + size[1] * size[2] * initial_quantity,
                  unplaced |-> acc.unplaced
                               + size[1] * size[2] * remaining_quantity])

NoProducts == [initial |-> 0, unplaced |-> 0]

\* Faulty variant: the final subtraction is reversed.
calculate_total_product_area_swapped(init_products, cur_products) ==
    LET acc == product_area_loop(init_products, cur_products, 1, NoProducts)
    IN  acc.unplaced - acc.initial

\* Faulty variant: built on the loop that counts a miss as unplaced.
calculate_total_product_area_miss_unplaced(init_products, cur_products) ==
    LET acc == product_area_loop_miss_unplaced(init_products, cur_products,
                                               1, NoProducts)
    IN  acc.initial - acc.unplaced

calculate_total_product_area(init_products, cur_products) ==
    LET acc == product_area_loop(init_products, cur_products, 1, NoProducts)
    IN  acc.initial - acc.unplaced

\* ------------------------------------------------------ get_filled_ratio
\* The outcome of one call: the exception raised ("" when it returns), the
\* returned value, whether the warning was logged, and the locals.
filled_ratio_outcome(product_area, usable, placed, denominator) ==
    [raised    |-> placed.raised,
     product   |-> product_area,
     usable    |-> usable,
     placed    |-> placed,
     warned    |-> placed.raised = "" /\ placed.avail = 0,
     ratio     |-> IF placed.raised # "" \/ placed.avail = 0 THEN Zero
                   ELSE true_divide(product_area, denominator)]

\* Faulty variant: the ratio is taken over total_usable_stock_area.
get_filled_ratio_by_usable(cur_stocks, cur_products, init_products, init_stocks) ==
    LET product_area == calculate_total_product_area(init_products, cur_products)
        usable == get_usable_stock_area(init_stocks)
        placed == get_placed_area(cur_stocks, init_stocks)
    IN  filled_ratio_outcome(product_area, usable, placed, usable)

get_filled_ratio(cur_stocks, cur_products, init_products, init_stocks) ==
    LET product_area == calculate_total_product_area(init_products, cur_products)
        usable == get_usable_stock_area(init_stocks)
        placed == get_placed_area(cur_stocks, init_stocks)
    IN  filled_ratio_outcome(product_area, usable, placed, placed.avail)

\* ------------------------------------------------------------ the machine
TypeOK ==
    /\ calls \in 0..MaxCalls
    /\ outcome \in {"none", "returned", "IndexError"}
    /\ warned \in BOOLEAN

\* MetricsCalculator.__init__: the four snapshots are stored as given.
StockRichInputs ==
    /\ initial_stocks \in SeqsUpTo(InitialGrids, MaxStocks)
    /\ stocks \in SeqsUpTo(Grids, MaxStocks)
    /\ \E s \in ProductScenarios :
          /\ initial_products = s[1]
          /\ current_products = s[2]

ProductRichInputs ==
    /\ \E s \in StockScenarios :
          /\ initial_stocks = s[1]
          /\ stocks = s[2]
    /\ initial_products \in SeqsUpTo(Products, MaxInitialProducts)
    /\ current_products \in SeqsUpTo(Products, MaxCurrentProducts)

Init ==
    /\ StockRichInputs \/ ProductRichInputs
    /\ calls = 0
    /\ outcome = "none"
    /\ filled_ratio = Zero
    /\ warned = FALSE
    /\ total_placed_product_area = 0
    /\ total_usable_stock_area = 0
    /\ total_placed_area = 0
    /\ used_stocks = 0
    /\ total_stock_area = 0

\* Faulty variant: the call empties self.current_products.
GetFilledRatioConsuming ==
    /\ calls < MaxCalls
    /\ LET r == get_filled_ratio(stocks, current_products,
                                 initial_products, initial_stocks)
       IN  /\ calls' = calls + 1
           /\ total_placed_product_area' = r.product
           /\ total_usable_stock_area' = r.usable
           /\ IF r.raised # ""
              THEN /\ outcome' = r.raised
                   /\ UNCHANGED <<filled_ratio, warned, total_placed_area,
                                  used_stocks, total_stock_area>>
              ELSE /\ outcome' = "returned"
                   /\ filled_ratio' = r.ratio
                   /\ warned' = r.warned
                   /\ total_placed_area' = r.placed.area
                   /\ used_stocks' = r.placed.used
                   /\ total_stock_area' = r.placed.avail
    /\ current_products' = <<>>
    /\ UNCHANGED <<stocks, initial_products, initial_stocks>>

\* One call of get_filled_ratio on the instance.
GetFilledRatio ==
    /\ calls < MaxCalls
    /\ LET r == get_filled_ratio(stocks, current_products,
                                 initial_products, initial_stocks)
       IN  /\ calls' = calls + 1
           /\ total_placed_product_area' = r.product
           /\ total_usable_stock_area' = r.usable
           /\ IF r.raised # ""
              THEN /\ outcome' = r.raised
                   /\ UNCHANGED <<filled_ratio, warned, total_placed_area,
                                  used_stocks, total_stock_area>>
              ELSE /\ outcome' = "returned"
                   /\ filled_ratio' = r.ratio
                   /\ warned' = r.warned
                   /\ total_placed_area' = r.placed.area
                   /\ used_stocks' = r.placed.used
                   /\ total_stock_area' = r.placed.avail
    /\ UNCHANGED fields

Next == GetFilledRatio

Spec == Init /\ [][Next]_vars

\* =================================================================
\* Properties.  The expected figures below are stated over sets of
\* stock indices, cells and product positions, not by the code's loops.
\* =================================================================
RECURSIVE SetSum(_, _)
SetSum(S, f) ==
    IF S = {} THEN 0
    ELSE LET x == CHOOSE y \in S : TRUE
         IN  f[x] + SetSum(S \ {x}, f)

Returned == outcome = "returned"

SameStockCount == Len(stocks) = Len(initial_stocks)

\* cells of stock i that are -1 in the initial grid
FreeCells(i) == {c \in 1..GridCells : initial_stocks[i][c] = -1}

\* cells of stock i that are -1 initially and not -1 in the grid cur
NewCellsIn(i, cur) == {c \in FreeCells(i) : cur[c] # -1}

NewCells(i) == NewCellsIn(i, stocks[i])

UsedIndices == {i \in 1..Len(stocks) : NewCells(i) # {}}

ExpectedAvailable ==
    SetSum(UsedIndices, [i \in UsedIndices |-> Cardinality(FreeCells(i))])

ExpectedPlacedCells ==
    SetSum(UsedIndices, [i \in UsedIndices |-> Cardinality(NewCells(i))])

\* positions of the current list whose size is that of initial product i
Matches(i) ==
    {j \in 1..Len(current_products) :
        current_products[j].size = initial_products[i].size}

Remaining(i) ==
    IF Matches(i) = {} THEN 0
    ELSE current_products[CHOOSE j \in Matches(i) :
                              \A k \in Matches(i) : j <= k].quantity

PlacedAreaOf(i) ==
    initial_products[i].size[1] * initial_products[i].size[2]
        * (initial_products[i].quantity - Remaining(i))

ExpectedProductArea ==
    SetSum(1..Len(initial_products),
           [i \in 1..Len(initial_products) |-> PlacedAreaOf(i)])

\* the returned float equals p / q (q > 0)
RatioIs(p, q) == filled_ratio[1] * q = p * filled_ratio[2]

\* -----------------------------------------------------------------
\* C1: with matching stock counts, get_filled_ratio returns 0.0 when the
\* usable area of the used stocks is 0 and otherwise the placed product
\* area (sum of width * height * (initial - remaining) over the initial
\* products) divided by that area; the grid-based placed area and the
\* all-stocks usable area do not enter the result.
C1_FilledRatioFormula ==
    (Returned /\ SameStockCount) =>
        IF ExpectedAvailable = 0
        THEN filled_ratio = Zero
        ELSE RatioIs(ExpectedProductArea, ExpectedAvailable)

C1_Witness ==
    /\ Returned /\ SameStockCount
    /\ ExpectedAvailable > 0
    /\ ExpectedProductArea > 0
    /\ total_placed_area # ExpectedProductArea
    /\ total_usable_stock_area # ExpectedAvailable
    /\ RatioIs(ExpectedProductArea, ExpectedAvailable)
    /\ ~RatioIs(total_placed_area, ExpectedAvailable)
    /\ ~RatioIs(ExpectedProductArea, total_usable_stock_area)

\* -----------------------------------------------------------------
\* C6: used_stocks is the number of stock indices with at least one cell
\* that was -1 initially and is not -1 now, and total_available_area is
\* the sum of the initial -1 counts of exactly those stocks; an untouched
\* stock contributes to neither.
C6_UsedStocksExact ==
    (Returned /\ SameStockCount) =>
        /\ used_stocks = Cardinality(UsedIndices)
        /\ total_stock_area = ExpectedAvailable
        /\ \A i \in 1..Len(stocks) :
              stocks[i] = initial_stocks[i] => i \notin UsedIndices

\* two stocks, one untouched with free cells, the other fully filled
C6_Witness ==
    /\ Returned
    /\ Len(stocks) = 2 /\ Len(initial_stocks) = 2
    /\ \E i, k \in 1..2 :
          /\ i # k
          /\ stocks[i] = initial_stocks[i] /\ FreeCells(i) # {}
          /\ FreeCells(k) = 1..GridCells /\ NewCells(k) = 1..GridCells
    /\ used_stocks = 1
    /\ total_stock_area = GridCells
    /\ total_usable_stock_area > total_stock_area

\* -----------------------------------------------------------------
\* C7: each initial product's remaining quantity is the quantity of the
\* first current entry of equal size, 0 when there is none; the product
\* contributes width * height * (initial - remaining) to the numerator,
\* whatever the stock grids are.
C7_ProductAreaFirstMatch ==
    calls >= 1 => total_placed_product_area = ExpectedProductArea

\* a size listed twice in the current list with different quantities, a
\* size missing from it, and a non-zero placed area
C7_Witness ==
    /\ calls >= 1
    /\ \E i \in 1..Len(initial_products) :
          /\ Cardinality(Matches(i)) = 2
          /\ \E j, k \in Matches(i) :
                current_products[j].quantity # current_products[k].quantity
          /\ initial_products[i].quantity - Remaining(i) = 2
    /\ \E i \in 1..Len(initial_products) :
          Matches(i) = {} /\ initial_products[i].quantity > 0
    /\ total_placed_product_area > 0

\* -----------------------------------------------------------------
\* C10: with matching stock counts,
\* 0 <= total_placed_area <= total_available_area <= total_usable_stock_area,
\* used_stocks <= number of stocks, the three of total_available_area,
\* used_stocks and total_placed_area are zero together, and the zero guard
\* is taken exactly when no initially -1 cell is non -1 now, whatever the
\* product accounting reports.
C10_GridFigures ==
    (Returned /\ SameStockCount) =>
        /\ 0 <= total_placed_area
        /\ total_placed_area <= total_stock_area
        /\ total_stock_area <= total_usable_stock_area
        /\ used_stocks <= Len(stocks)
        /\ (total_stock_area = 0) <=> (used_stocks = 0)
        /\ (used_stocks = 0) <=> (total_placed_area = 0)
        /\ warned <=> (\A i \in 1..Len(stocks) : NewCells(i) = {})
        /\ warned => filled_ratio = Zero

\* the guard is taken although the accounting reports placed area
C10_Witness ==
    /\ Returned /\ SameStockCount
    /\ warned
    /\ total_placed_product_area > 0
    /\ total_usable_stock_area > 0

\* -----------------------------------------------------------------
\* Well-formed inputs: stock counts match (grid shapes match by
\* construction), every current size occurs in the initial list, and every
\* current entry's quantity lies between 0 and the initial quantity of each
\* initial entry of its size.
WellFormed ==
    /\ SameStockCount
    /\ \A j \in 1..Len(current_products) :
          \E i \in 1..Len(initial_products) :
              initial_products[i].size = current_products[j].size
    /\ \A j \in 1..Len(current_products) :
          \A i \in 1..Len(initial_products) :
              initial_products[i].size = current_products[j].size =>
                  /\ 0 <= current_products[j].quantity
                  /\ current_products[j].quantity <= initial_products[i].quantity

\* The same with the quantity condition put on the looked-up remaining
\* quantity only; WellFormed implies it.
WellFormedLookup ==
    /\ SameStockCount
    /\ \A j \in 1..Len(current_products) :
          \E i \in 1..Len(initial_products) :
              initial_products[i].size = current_products[j].size
    /\ \A i \in 1..Len(initial_products) :
          /\ 0 <= Remaining(i)
          /\ Remaining(i) <= initial_products[i].quantity

InUnitInterval ==
    /\ 0 <= filled_ratio[1]
    /\ filled_ratio[1] <= filled_ratio[2]

\* C2 as stated: under well-formed inputs the returned value lies in
\* [0.0, 1.0].
C2_Original == (Returned /\ WellFormed) => InUnitInterval

\* C2 as amended: under well-formed inputs whose placed product area does
\* not exceed the number of newly placed cells, the returned value lies in
\* [0.0, 1.0].
C2_UnitIntervalWhenConsistent ==
    (Returned /\ WellFormedLookup /\ ExpectedProductArea <= ExpectedPlacedCells)
        => InUnitInterval

C2_Witness ==
    /\ Returned /\ WellFormed
    /\ ExpectedProductArea <= ExpectedPlacedCells
    /\ ExpectedProductArea > 0
    /\ filled_ratio[1] > 0
    /\ filled_ratio[1] < filled_ratio[2]

\* -----------------------------------------------------------------
\* C3: when the current stocks equal the initial stocks and the current
\* products equal the initial products, get_filled_ratio returns 0.0 with
\* a zero numerator, a zero denominator and the zero guard taken.
C3_Original ==
    (Returned /\ stocks = initial_stocks
              /\ current_products = initial_products) =>
        /\ filled_ratio = Zero
        /\ total_placed_product_area = 0
        /\ total_stock_area = 0
        /\ warned

\* -----------------------------------------------------------------
\* C4: a call leaves the four snapshots as they were, and every call after
\* the first ends as the previous one did, with the same value.
C4_IdempotentReadOnly ==
    [][ /\ fields' = fields
        /\ calls >= 1 => /\ outcome' = outcome
                         /\ filled_ratio' = filled_ratio
                         /\ warned' = warned
                         /\ locals' = locals ]_vars

C4_Witness ==
    /\ calls >= 2
    /\ Returned
    /\ filled_ratio[1] > 0
    /\ current_products # <<>>

\* -----------------------------------------------------------------
\* C5: replacing one stock's current grid by a grid whose newly placed
\* cells include those of the present one, all else equal, does not
\* decrease used_stocks or total_available_area.
C5_Monotone ==
    (Returned /\ SameStockCount) =>
        \A k \in 1..Len(stocks) : \A g \in Grids :
            NewCells(k) \subseteq NewCellsIn(k, g) =>
                LET more == get_placed_area([stocks EXCEPT ![k] = g],
                                            initial_stocks)
                IN  /\ more.used >= used_stocks
                    /\ more.avail >= total_stock_area

\* a used stock keeps company with an unused one that becomes used
C5_Witness ==
    /\ Returned /\ SameStockCount
    /\ used_stocks = 1
    /\ \E k \in 1..Len(stocks) : \E g \in Grids :
          /\ NewCells(k) \subseteq NewCellsIn(k, g)
          /\ NewCells(k) # NewCellsIn(k, g)
          /\ LET more == get_placed_area([stocks EXCEPT ![k] = g],
                                         initial_stocks)
             IN  more.used = 2 /\ more.avail > total_stock_area
    /\ \E k \in 1..Len(stocks) : \E g \in Grids :
          /\ NewCells(k) # {}
          /\ NewCells(k) \subseteq NewCellsIn(k, g)
          /\ NewCells(k) # NewCellsIn(k, g)

\* -----------------------------------------------------------------
\* every initial product fully placed, every initially -1 cell consumed,
\* and placed product area equal to the consumed cells of the used sheets
FullyPacked ==
    /\ SameStockCount
    /\ \A i \in 1..Len(initial_products) : Remaining(i) = 0
    /\ \A k \in 1..Len(stocks) : NewCells(k) = FreeCells(k)
    /\ ExpectedProductArea = ExpectedPlacedCells

\* C8 as stated: when every initial product is fully placed, every
\* initially -1 cell is consumed and the placed product area equals the
\* consumed cells of the used sheets, get_filled_ratio returns 1.0.
C8_Original == (Returned /\ FullyPacked) => filled_ratio = One

\* C8 as amended: under the same conditions get_filled_ratio returns 1.0
\* when some stock has an initially -1 cell, and 0.0 when none has.
C8_FullyPackedRatio ==
    (Returned /\ FullyPacked) =>
        IF \E k \in 1..Len(stocks) : FreeCells(k) # {}
        THEN filled_ratio = One
        ELSE filled_ratio = Zero

C8_Witness ==
    /\ Returned /\ FullyPacked
    /\ \E k \in 1..Len(stocks) : FreeCells(k) # {}
    /\ \E i \in 1..Len(initial_products) : Matches(i) = {}
    /\ filled_ratio = One

\* -----------------------------------------------------------------
\* C9 as stated: whenever the two stock collections differ in length,
\* get_filled_ratio ends in an error instead of returning a ratio.
C9_Original ==
    (calls >= 1 /\ ~SameStockCount) => outcome = "IndexError"

\* C9 as amended: whenever the current stock collection is longer than the
\* initial one, get_filled_ratio ends in the IndexError of the indexing
\* operation; when it is shorter, the call returns the ratio computed over
\* the stock indices of the current collection.
C9_LongerCurrentRaises ==
    calls >= 1 =>
        /\ Len(stocks) > Len(initial_stocks) => outcome = "IndexError"
        /\ Len(stocks) < Len(initial_stocks) =>
              /\ Returned
              /\ IF ExpectedAvailable = 0 THEN filled_ratio = Zero
                 ELSE RatioIs(ExpectedProductArea, ExpectedAvailable)

C9_Witness ==
    /\ calls >= 1
    /\ Len(stocks) > Len(initial_stocks)
    /\ Len(initial_stocks) >= 1
    /\ NewCells(1) # {}
    /\ outcome = "IndexError"

====
